---- MODULE Spec2Model ----
(***************************************************************************)
(* Past-paper walkthrough engine of rag-study-assistant                    *)
(* (src/pastpaper_handler.py, driven by src/api.py and src/app.py).        *)
(*                                                                         *)
(* Utterances are sequences of lower-case word tokens (unit codes keep     *)
(* their upper case); the regular expressions of the source are evaluated  *)
(* token by token.  Python's None is NoneNum for a number, NoneStr for a   *)
(* string and the empty token sequence for the answer text.                *)
(***************************************************************************)
EXTENDS Integers, Sequences, FiniteSets, TLC

\* ------------------------------------------------------------------ bounds
MaxQuestions == 12      \* largest number of questions of a retrieved paper
NumThreads == 2         \* request threads of the interleaved specification
MaxCalls == 3           \* handle calls begun in a run of the interleaved specification
MaxIsoCalls == 3        \* handle calls begun in a run of the two-client interleaved specification
MaxLines == 3            \* lines of a text to segment
MaxClarifications == 2  \* generation calls counted per ordinal and session lifetime

\* ------------------------------------------------------- program constants
BatchSize == 5          \* default batch_size of get_next_batch
MinBodyLen == 3         \* a marked body of at most 3 characters is discarded
MinSectionLen == 20     \* a fallback section of at most 20 characters is discarded

NoneNum == -1
NoneStr == "None"
NoText == << >>

Min(a, b) == IF a < b THEN a ELSE b

EmptyMap == [k \in {} |-> NoText]

\* dict[key] = value
Put(m, k, v) == [x \in (DOMAIN m) \cup {k} |-> IF x = k THEN v ELSE m[x]]

\* ---------------------------------------------------------------- tokens
NumTokens == {"0", "1", "3"}
YearTokens == {"2023", "2024"}
UnitTokens == {"CSC231", "PHY300"}
AnswerWords == {"X"}

\* int(num_match.group(1))
IntOf(tok) ==
    CASE tok = "0" -> 0
      [] tok = "1" -> 1
      [] tok = "2" -> 2
      [] tok = "3" -> 3
      [] tok = "4" -> 4
      [] tok = "2023" -> 2023
      [] tok = "2024" -> 2024
      [] OTHER -> NoneNum

\* the pattern (a sequence of tokens) occurs in u at position i
MatchAt(u, i, pat) ==
    /\ i >= 1
    /\ i + Len(pat) - 1 <= Len(u)
    /\ \A j \in 1..Len(pat) : u[i + j - 1] = pat[j]

\* re.search of an alternation of token patterns: some pattern occurs somewhere
Search(u, pats) == \E i \in 1..Len(u) : \E p \in pats : MatchAt(u, i, p)

\* positions at which one of the patterns ends
EndsOf(u, pats) == {i + Len(p) - 1 : <<i, p>> \in
                       {ip \in (1..Len(u)) \X pats : MatchAt(u, ip[1], ip[2])}}

\* re.search(r'(A).*(B)'): an A, and a B that starts after that A has ended
SearchThen(u, as, bs) ==
    \E e \in EndsOf(u, as) : \E i \in (e + 1)..Len(u) : \E p \in bs : MatchAt(u, i, p)

\* --------------------------------------------------------------- session
\* PastPaperSession(): the dataclass defaults
PastPaperSession ==
    [unit_code |-> NoneStr, year |-> NoneStr, current_batch |-> 0,
     questions |-> << >>, user_answers |-> EmptyMap, model_answers |-> EmptyMap,
     is_active |-> FALSE, total_questions |-> 0]

\* reset that forgets to clear the cursor
reset_keeps_cursor(s) == [PastPaperSession EXCEPT !.current_batch = s.current_batch]

\* reset that only ends the walkthrough and rewinds, keeping the answers
reset_keeps_answers(s) ==
    [PastPaperSession EXCEPT !.user_answers = s.user_answers]

reset(s) == PastPaperSession

\* start_paper that leaves the answer maps as they are
start_paper_keeps_answers(s, unit_code, year, questions) ==
    [unit_code |-> unit_code, year |-> year, current_batch |-> 0,
     questions |-> questions, user_answers |-> s.user_answers,
     model_answers |-> s.model_answers,
     is_active |-> TRUE, total_questions |-> Len(questions)]

start_paper(s, unit_code, year, questions) ==
    [unit_code |-> unit_code, year |-> year, current_batch |-> 0,
     questions |-> questions, user_answers |-> EmptyMap, model_answers |-> EmptyMap,
     is_active |-> TRUE, total_questions |-> Len(questions)]

\* Python slice questions[a:b] with 0 <= a
Slice(q, a, b) == IF a >= Min(b, Len(q)) THEN << >> ELSE SubSeq(q, a + 1, Min(b, Len(q)))

\* get_next_batch with has_more computed from the unclamped end
get_next_batch_unclamped(s) ==
    LET start_idx == s.current_batch * BatchSize
        end_idx == Min(start_idx + BatchSize, s.total_questions)
    IN [session |-> [s EXCEPT !.current_batch = @ + 1],
        batch |-> Slice(s.questions, start_idx, end_idx),
        has_more |-> start_idx + BatchSize <= s.total_questions]

get_next_batch(s) ==
    LET start_idx == s.current_batch * BatchSize
        end_idx == Min(start_idx + BatchSize, s.total_questions)
    IN [session |-> [s EXCEPT !.current_batch = @ + 1],
        batch |-> Slice(s.questions, start_idx, end_idx),
        has_more |-> end_idx < s.total_questions]

get_current_progress(s) == Min(s.current_batch * 5, s.total_questions)

save_answer(s, question_num, answer) ==
    [s EXCEPT !.user_answers = Put(@, question_num, answer)]

\* ------------------------------------------------------------- processor
\* The retrieved text: blocks are the marked candidates in textual order
\* (num the parsed marker number, len the length of the stripped body);
\* sections are the lengths of the non-empty blank-line separated sections.
MarkedContent(n) ==
    [blocks |-> [i \in 1..n |-> [num |-> i, len |-> 10]], sections |-> << >>]

PlainContent ==
    [blocks |-> << >>, sections |-> <<30, 8, 25>>]

\* the texts a retrieval may find: in the full specification a few sizes
\* around the batch size, in the batching specification every size
PaperSizes == {0, 2, BatchSize, MaxQuestions}

Contents == {MarkedContent(n) : n \in PaperSizes} \cup {PlainContent}

AllSizes == {MarkedContent(n) : n \in 0..MaxQuestions}

\* ----------------------------------------------------- text, line by line
\* One line of all_content: indent the leading whitespace, prefix the optional
\* "Q" or "Question", form what the line begins with after that ("n" stands
\* for the digits of num), len the length of the text after that beginning.
Line(indent, prefix, form, num, len) ==
    [indent |-> indent, prefix |-> prefix, form |-> form, num |-> num, len |-> len]

BlankLine == Line(0, "", "blank", 0, 0)
TextLine == Line(0, "", "text", 0, 10)
LetterLine == Line(3, "", "a.", 0, 10)

\* the forms of (?:\((\d+)\)|(\d+)[\.:)]) and the words of (?:Q(?:uestion)?\s*)?
NumberForms == {"(n)", "n.", "n:", "n)"}
Prefixes == {"Q", "Question"}

\* a marker that also takes a letter for the number
IsMarker_letters(line) ==
    /\ line.form \in NumberForms \cup {"a."}
    /\ line.prefix \in {""} \cup Prefixes

\* ^\s*(?:Q(?:uestion)?\s*)?(?:\((\d+)\)|(\d+)[\.:)])\s+ matches at the
\* beginning of the line
IsMarker(line) ==
    /\ line.form \in NumberForms
    /\ line.prefix \in {""} \cup Prefixes

\* the length of the line without its indentation
Width(line) ==
    IF line.form = "blank" THEN 0
    ELSE IF line.form = "text" THEN line.len
    ELSE IF line.form = "a." THEN 3 + line.len
    ELSE (IF line.prefix = "Question" THEN 9 ELSE Len(line.prefix))
           + (IF line.num >= 10 THEN 2 ELSE 1)
           + (IF line.form = "(n)" THEN 2 ELSE 1) + 1 + line.len

RECURSIVE SumOver(_, _, _)
SumOver(f, a, b) == IF a > b THEN 0 ELSE f[a] + SumOver(f, a + 1, b)

\* len(text.strip()) of the lines first..last joined by newlines, the first
\* line counted from position `from` on (tail: the characters it has there)
StrippedLen(lines, first, last, tail) ==
    LET chars == [k \in first..last |->
                     IF k = first THEN tail
                     ELSE IF Width(lines[k]) = 0 THEN 0
                     ELSE lines[k].indent + Width(lines[k])]
        inked == {k \in first..last : chars[k] > 0}
    IN IF inked = {} THEN 0
       ELSE LET f == CHOOSE k \in inked : \A j \in inked : k <= j
                l == CHOOSE k \in inked : \A j \in inked : j <= k
            IN SumOver(chars, f, l) + (l - f) - (IF f > first THEN lines[f].indent ELSE 0)

\* the elements of a set of numbers in increasing order
Ascending(S) ==
    [k \in 1..Cardinality(S) |-> CHOOSE i \in S : Cardinality({j \in S : j < i}) = k - 1]

\* list(question_pattern.finditer(all_content)): one match per marker line,
\* its body (group 3) running up to the next marker line or the end
matches(lines) ==
    LET at == Ascending({i \in 1..Len(lines) : IsMarker(lines[i])})
    IN [k \in 1..Len(at) |->
           LET last == IF k < Len(at) THEN at[k + 1] - 1 ELSE Len(lines)
           IN [num |-> lines[at[k]].num,
               len |-> StrippedLen(lines, at[k], last, lines[at[k]].len),
               first |-> at[k], last |-> last]]

\* re.split(r"\n\n+", all_content) with the empty sections dropped: the
\* stripped lengths of the runs of lines between blank lines
sections(lines) ==
    LET starts == Ascending({i \in 1..Len(lines) :
                      /\ Width(lines[i]) > 0
                      /\ (i = 1 \/ Width(lines[i - 1]) = 0)})
    IN [k \in 1..Len(starts) |->
           LET ends == {j \in starts[k]..Len(lines) :
                           j = Len(lines) \/ Width(lines[j + 1]) = 0}
               last == CHOOSE j \in ends : \A e \in ends : j <= e
           IN StrippedLen(lines, starts[k], last, Width(lines[starts[k]]))]

\* the text as extract_questions sees it
all_content(lines) ==
    [blocks |-> matches(lines), sections |-> sections(lines), lines |-> lines]

\* the lines of the texts to segment: the numbering styles of the docstring
\* with marker numbers out of order, apart and repeated, a body too short to
\* keep, a lettered sub-part and a line of plain text
LineAlphabet ==
    {Line(0, "Question", "n:", 1, 10), Line(0, "Q", "n:", 4, 10),
     Line(0, "", "n.", 1, 10), Line(0, "", "n)", 2, 10), Line(3, "", "(n)", 7, 10),
     Line(0, "", "n.", 3, 2), LetterLine, TextLine}

\* smoke_tests.SAMPLE_ENUMERATED_CONTENT: 18 items "1)" .. "18)" apart by
\* blank lines, lettered sub-parts under items 5, 9 and 13
SampleSubParts == [i \in 1..18 |-> IF i = 5 THEN 5 ELSE IF i = 9 THEN 4 ELSE IF i = 13 THEN 2 ELSE 0]

RECURSIVE SampleItems(_)
SampleItems(i) ==
    IF i > 18 THEN << >>
    ELSE <<Line(0, "", "n)", i, 30)>> \o [k \in 1..SampleSubParts[i] |-> LetterLine]
            \o <<BlankLine>> \o SampleItems(i + 1)

SAMPLE_ENUMERATED_CONTENT == <<BlankLine>> \o SampleItems(1)

Texts ==
    UNION {[1..n -> LineAlphabet] : n \in 1..MaxLines} \cup {SAMPLE_ENUMERATED_CONTENT}

SegContents == {all_content(lines) : lines \in Texts}

\* a question string "Question <label>: <text>"; pos identifies the text by
\* its position in the retrieved content
Question(label, pos) == [label |-> label, pos |-> pos]

RECURSIVE InsertByNum(_, _)
InsertByNum(sorted, x) ==
    IF sorted = << >> THEN <<x>>
    ELSE IF x.label < Head(sorted).label THEN <<x>> \o sorted
    ELSE <<Head(sorted)>> \o InsertByNum(Tail(sorted), x)

\* sorted(extracted, key=lambda x: x[0]): stable
RECURSIVE SortByNum(_)
SortByNum(seq) ==
    IF seq = << >> THEN << >>
    ELSE InsertByNum(SortByNum(SubSeq(seq, 1, Len(seq) - 1)), seq[Len(seq)])

RECURSIVE Keep(_, _, _)
Keep(lens, i, minLen) ==
    IF i > Len(lens) THEN << >>
    ELSE (IF lens[i] > minLen THEN <<i>> ELSE << >>) \o Keep(lens, i + 1, minLen)

extract_questions(docs) ==
    LET content == docs[1]
        kept == Keep([i \in 1..Len(content.blocks) |-> content.blocks[i].len], 1, MinBodyLen)
        extracted == [k \in 1..Len(kept) |-> Question(content.blocks[kept[k]].num, kept[k])]
        questions == SortByNum(extracted)
        long == Keep(content.sections, 1, MinSectionLen)
    IN IF questions # << >> THEN questions
       ELSE [k \in 1..Len(long) |-> Question(long[k], long[k])]

\* format_batch that numbers the blocks of every batch from 1
format_batch_from_one(questions, start_num) ==
    [i \in 1..Len(questions) |->
        [heading |-> i, question |-> questions[i], stripped |-> questions[i].label = i]]

\* format_batch(questions, start_num): one block per question, headed
\* "**Question <q_index>:**"; the question's own "Question <label>:" prefix is
\* stripped where the label is q_index
format_batch(questions, start_num) ==
    [i \in 1..Len(questions) |->
        LET q_index == start_num + (i - 1)
        IN [heading |-> q_index, question |-> questions[i],
            stripped |-> questions[i].label = q_index]]

\* re.search(r'question\s*(\d+)'): the number token that follows the first
\* "question" token that has one
DigitTokens == NumTokens \cup YearTokens

QuestionNum(u) ==
    LET hits == {i \in 1..Len(u) : MatchAt(u, i, <<"question">>)
                                     /\ i < Len(u) /\ u[i + 1] \in DigitTokens}
    IN IF hits = {} THEN NoneNum
       ELSE IntOf(u[(CHOOSE i \in hits : \A j \in hits : i <= j) + 1])

\* re.search(r'(?:answer is|my answer|i think it\'s|solution:)\s*(.+)'):
\* leftmost position where an alternative matches with text left after it,
\* the alternatives tried in the order written
AnswerPatterns == << <<"answer", "is">>, <<"my", "answer">>, <<"i", "think", "it's">>, <<"solution:">> >>

AnswerHits(u) ==
    {ik \in (1..Len(u)) \X (1..Len(AnswerPatterns)) :
        /\ MatchAt(u, ik[1], AnswerPatterns[ik[2]])
        /\ ik[1] + Len(AnswerPatterns[ik[2]]) <= Len(u)}

AnswerText(u) ==
    LET hits == AnswerHits(u)
    IN IF hits = {} THEN NoText
       ELSE LET h == CHOOSE x \in hits : \A y \in hits :
                        \/ x[1] < y[1]
                        \/ (x[1] = y[1] /\ x[2] <= y[2])
            IN SubSeq(u, h[1] + Len(AnswerPatterns[h[2]]), Len(u))

NextWords == {<<"next">>, <<"continue">>, <<"more">>, <<"yes">>, <<"proceed">>}
ClarifyWords == {<<"clarify">>, <<"explain">>, <<"help">>, <<"confused">>, <<"understand">>}
AnswerCues == {<<"answer">>, <<"my", "answer">>, <<"i", "think">>, <<"solution">>}
StopWords == {<<"stop">>, <<"quit">>, <<"exit">>, <<"done">>, <<"finish">>}

parse_user_intent(u) ==
    LET wants_clarification == Search(u, ClarifyWords)
        has_answer == Search(u, AnswerCues)
    IN [wants_next |-> Search(u, NextWords),
        wants_clarification |-> wants_clarification,
        has_answer |-> has_answer,
        wants_stop |-> Search(u, StopWords),
        question_num |-> IF wants_clarification \/ has_answer THEN QuestionNum(u) ELSE NoneNum,
        answer_text |-> IF has_answer THEN AnswerText(u) ELSE NoText]

\* ----------------------------------------------------------------- chain
StartWords == {<<"start">>, <<"begin">>, <<"go", "through">>, <<"work", "through">>, <<"practice">>}
PaperWords == {<<"past", "paper">>, <<"exam">>, <<"test">>}
ExamWords == {<<"past", "paper">>, <<"exam">>}
UnitPats == {<<t>> : t \in UnitTokens}
YearPats == {<<t>> : t \in YearTokens}

_is_new_paper_request(u) ==
    \/ SearchThen(u, StartWords, PaperWords)
    \/ SearchThen(u, UnitPats, YearPats)
    \/ SearchThen(u, YearPats, ExamWords)

First(u, toks) ==
    LET hits == {i \in 1..Len(u) : u[i] \in toks}
    IN IF hits = {} THEN NoneStr ELSE u[CHOOSE i \in hits : \A j \in hits : i <= j]

_extract_paper_details(u) ==
    [unit_code |-> First(u, UnitTokens), year |-> First(u, YearTokens)]

\* the vector store: the metadata of the indexed documents
Store ==
    {[source_type |-> "PastPaper", unit_code |-> "CSC231", year |-> "2024"],
     [source_type |-> "Notes", unit_code |-> "CSC231", year |-> NoneStr]}

\* a filter that leaves the document type open
Filter_any_type(source_type, unit_code, year) ==
    [source_type |-> NoneStr, unit_code |-> unit_code, year |-> year]

\* a Chroma "where" filter: the $and of $eq conditions; NoneStr is no condition
Filter(source_type, unit_code, year) ==
    [source_type |-> source_type, unit_code |-> unit_code, year |-> year]

Matches(meta, f) ==
    /\ f.source_type \in {NoneStr, meta.source_type}
    /\ f.unit_code \in {NoneStr, meta.unit_code}
    /\ f.year \in {NoneStr, meta.year}

\* retriever.get_relevant_documents: nothing when no indexed document passes
\* the filter, otherwise the text found, which is `content`
Retrieve(f, content) ==
    IF \E meta \in Store : Matches(meta, f) THEN <<content>> ELSE << >>

\* free-form messages of POST /api/pastpaper/start
StartMessage == <<"go", "through", "CSC231", "2024", "past", "paper">>
StopMessage == <<"stop">>
NextMessage == <<"next">>

Messages ==
    {StartMessage, StopMessage,
     <<"PHY300", "2024">>,
     <<"practice", "2023", "exam">>,
     <<"hello">>, <<"clarify">>,
     <<"my", "answer", "is", "X">>,
     <<"answer", "question", "3">>,
     <<"CSC231", "2023">>,
     <<"start", "exam", "stop">>,
     <<"stop", "next", "explain", "my", "answer", "is", "X">>,
     <<"more", "help", "question", "1">>,
     <<"explain", "my", "answer", "is", "X", "question", "1">>}

ClarifyMessage(questionNumber) == <<"clarify", "question", questionNumber>>

AnswerMessage(questionNumber, answer) ==
    <<"my", "answer", "for", "question", questionNumber, "is", answer>>

\* every message of the model; the pure functions of the message and of the
\* retrieved text are tabulated, each evaluated once
Utterances ==
    Messages \cup {NextMessage} \cup {ClarifyMessage(n) : n \in NumTokens}
        \cup {AnswerMessage(n, a) : n \in NumTokens, a \in AnswerWords}

Intent == [u \in Utterances |-> parse_user_intent(u)]
NewPaperRequest == [u \in Utterances |-> _is_new_paper_request(u)]
PaperDetails == [u \in Utterances |-> _extract_paper_details(u)]
Questions == [c \in Contents \cup AllSizes \cup SegContents |-> extract_questions(<<c>>)]

\* what one handle call returned and did: the response string is identified
\* by `outcome` and the values rendered into it; raised is an exception that
\* leaves handle_past_paper_request instead of a response
NoResp ==
    [sid |-> NoneStr, message |-> << >>, intent |-> "NONE", outcome |-> "none", raised |-> FALSE,
     q_num |-> NoneNum, answer |-> NoText, generated |-> NoneStr,
     batch |-> << >>, has_more |-> FALSE, start_num |-> 0, total |-> 0,
     gen_calls |-> 0, batch_calls |-> 0, retrievals |-> << >>, docs |-> << >>,
     was_active |-> FALSE, rendered |-> << >>]

\* the generation capability: chain.invoke returns text or raises
GenOutcomes == {"ok", "fail"}
GenText == "generated"
Placeholder == "(Unable to generate an answer at this time.)"

\* _start_new_paper that ends the walkthrough under way when nothing is found
_start_new_paper_resets_on_miss(u, s, content) ==
    LET d == PaperDetails[u]
        strict_filter == Filter("PastPaper", d.unit_code, d.year)
        docs1 == Retrieve(strict_filter, content)
        retry == docs1 = << >> /\ d.unit_code # NoneStr
        relaxed_filter == Filter("PastPaper", NoneStr, d.year)
        docs == IF retry THEN Retrieve(relaxed_filter, content) ELSE docs1
        retrievals == IF retry THEN <<strict_filter, relaxed_filter>> ELSE <<strict_filter>>
        questions == IF docs = << >> THEN << >> ELSE Questions[docs[1]]
        started == start_paper(s, IF d.unit_code # NoneStr THEN d.unit_code ELSE "Unknown",
                                  IF d.year # NoneStr THEN d.year ELSE "Unknown", questions)
        nb == get_next_batch(started)
        r == [NoResp EXCEPT !.intent = "START_NEW", !.retrievals = retrievals, !.docs = docs]
    IN IF docs = << >> THEN
           [session |-> reset(s), resp |-> [r EXCEPT !.outcome = "not_found"]]
       ELSE IF questions = << >> THEN
           [session |-> reset(s), resp |-> [r EXCEPT !.outcome = "segmentation_empty"]]
       ELSE
           [session |-> nb.session,
            resp |-> [r EXCEPT !.outcome = "started", !.batch = nb.batch,
                               !.has_more = nb.has_more, !.start_num = 1,
                               !.rendered = format_batch(nb.batch, 1),
                               !.total = nb.session.total_questions, !.batch_calls = 1]]

\* _start_new_paper without the test of the extracted questions
_start_new_paper_unguarded(u, s, content) ==
    LET d == PaperDetails[u]
        strict_filter == Filter("PastPaper", d.unit_code, d.year)
        docs1 == Retrieve(strict_filter, content)
        retry == docs1 = << >> /\ d.unit_code # NoneStr
        relaxed_filter == Filter("PastPaper", NoneStr, d.year)
        docs == IF retry THEN Retrieve(relaxed_filter, content) ELSE docs1
        retrievals == IF retry THEN <<strict_filter, relaxed_filter>> ELSE <<strict_filter>>
        questions == IF docs = << >> THEN << >> ELSE Questions[docs[1]]
        started == start_paper(s, IF d.unit_code # NoneStr THEN d.unit_code ELSE "Unknown",
                                  IF d.year # NoneStr THEN d.year ELSE "Unknown", questions)
        nb == get_next_batch(started)
        r == [NoResp EXCEPT !.intent = "START_NEW", !.retrievals = retrievals, !.docs = docs]
    IN IF docs = << >> THEN
           [session |-> s, resp |-> [r EXCEPT !.outcome = "not_found"]]
       ELSE
           [session |-> nb.session,
            resp |-> [r EXCEPT !.outcome = "started", !.batch = nb.batch,
                               !.has_more = nb.has_more, !.start_num = 1,
                               !.rendered = format_batch(nb.batch, 1),
                               !.total = nb.session.total_questions, !.batch_calls = 1]]

_start_new_paper(u, s, content) ==
    LET d == PaperDetails[u]
        strict_filter == Filter("PastPaper", d.unit_code, d.year)
        docs1 == Retrieve(strict_filter, content)
        retry == docs1 = << >> /\ d.unit_code # NoneStr
        relaxed_filter == Filter("PastPaper", NoneStr, d.year)
        docs == IF retry THEN Retrieve(relaxed_filter, content) ELSE docs1
        retrievals == IF retry THEN <<strict_filter, relaxed_filter>> ELSE <<strict_filter>>
        questions == IF docs = << >> THEN << >> ELSE Questions[docs[1]]
        started == start_paper(s, IF d.unit_code # NoneStr THEN d.unit_code ELSE "Unknown",
                                  IF d.year # NoneStr THEN d.year ELSE "Unknown", questions)
        nb == get_next_batch(started)
        r == [NoResp EXCEPT !.intent = "START_NEW", !.retrievals = retrievals, !.docs = docs]
    IN IF docs = << >> THEN
           [session |-> s, resp |-> [r EXCEPT !.outcome = "not_found"]]
       ELSE IF questions = << >> THEN
           [session |-> s, resp |-> [r EXCEPT !.outcome = "segmentation_empty"]]
       ELSE
           [session |-> nb.session,
            resp |-> [r EXCEPT !.outcome = "started", !.batch = nb.batch,
                               !.has_more = nb.has_more, !.start_num = 1,
                               !.rendered = format_batch(nb.batch, 1),
                               !.total = nb.session.total_questions, !.batch_calls = 1]]

\* _show_next_batch that reports completion without resetting the session
_show_next_batch_no_reset(s) ==
    LET nb == get_next_batch(s)
        r == [NoResp EXCEPT !.intent = "NEXT_BATCH"]
    IN IF ~s.is_active THEN
           [session |-> s, resp |-> [r EXCEPT !.outcome = "no_active"]]
       ELSE IF nb.batch = << >> THEN
           [session |-> nb.session,
            resp |-> [r EXCEPT !.outcome = "completed", !.batch_calls = 1]]
       ELSE
           [session |-> nb.session,
            resp |-> [r EXCEPT !.outcome = "batch", !.batch = nb.batch,
                               !.has_more = nb.has_more,
                               !.start_num = (nb.session.current_batch - 1) * 5 + 1,
                               !.rendered = format_batch(nb.batch,
                                               (nb.session.current_batch - 1) * 5 + 1),
                               !.total = nb.session.total_questions, !.batch_calls = 1]]

_show_next_batch(s) ==
    LET nb == get_next_batch(s)
        r == [NoResp EXCEPT !.intent = "NEXT_BATCH"]
    IN IF ~s.is_active THEN
           [session |-> s, resp |-> [r EXCEPT !.outcome = "no_active"]]
       ELSE IF nb.batch = << >> THEN
           [session |-> reset(nb.session),
            resp |-> [r EXCEPT !.outcome = "completed", !.batch_calls = 1]]
       ELSE
           [session |-> nb.session,
            resp |-> [r EXCEPT !.outcome = "batch", !.batch = nb.batch,
                               !.has_more = nb.has_more,
                               !.start_num = (nb.session.current_batch - 1) * 5 + 1,
                               !.rendered = format_batch(nb.batch,
                                               (nb.session.current_batch - 1) * 5 + 1),
                               !.total = nb.session.total_questions, !.batch_calls = 1]]

\* a clarification that takes a paper whose batches are all delivered as over
_provide_clarification_until_delivered(intent, s, gen) ==
    LET q_num == intent.question_num
        r == [NoResp EXCEPT !.intent = "CLARIFY", !.q_num = q_num]
    IN IF ~s.is_active \/ s.current_batch * BatchSize >= s.total_questions THEN
           [session |-> s, resp |-> [r EXCEPT !.outcome = "no_active"]]
       ELSE IF q_num = NoneNum \/ q_num = 0 \/ q_num > Len(s.questions) THEN
           [session |-> s, resp |-> [r EXCEPT !.outcome = "invalid_ordinal"]]
       ELSE IF gen = "fail" THEN
           [session |-> s, resp |-> [r EXCEPT !.outcome = "exception", !.raised = TRUE,
                                              !.gen_calls = 1]]
       ELSE
           [session |-> s, resp |-> [r EXCEPT !.outcome = "clarified", !.gen_calls = 1,
                                              !.generated = GenText]]

_provide_clarification(intent, s, gen) ==
    LET q_num == intent.question_num
        r == [NoResp EXCEPT !.intent = "CLARIFY", !.q_num = q_num]
    IN IF ~s.is_active THEN
           [session |-> s, resp |-> [r EXCEPT !.outcome = "no_active"]]
       ELSE IF q_num = NoneNum \/ q_num = 0 \/ q_num > Len(s.questions) THEN
           [session |-> s, resp |-> [r EXCEPT !.outcome = "invalid_ordinal"]]
       ELSE IF gen = "fail" THEN
           [session |-> s, resp |-> [r EXCEPT !.outcome = "exception", !.raised = TRUE,
                                              !.gen_calls = 1]]
       ELSE
           [session |-> s, resp |-> [r EXCEPT !.outcome = "clarified", !.gen_calls = 1,
                                              !.generated = GenText]]

_process_answer(intent, s, gen) ==
    LET q_num == intent.question_num
        answer == intent.answer_text
        saved == save_answer(s, q_num, answer)
        r == [NoResp EXCEPT !.intent = "ANSWER", !.q_num = q_num, !.answer = answer]
    IN IF ~s.is_active THEN
           [session |-> s, resp |-> [r EXCEPT !.outcome = "no_active"]]
       ELSE IF q_num = NoneNum \/ q_num = 0 \/ answer = NoText THEN
           [session |-> s, resp |-> [r EXCEPT !.outcome = "need_both"]]
       ELSE IF q_num > Len(s.questions) THEN
           \* session.questions[q_num - 1] raises IndexError after the save
           [session |-> saved, resp |-> [r EXCEPT !.outcome = "exception", !.raised = TRUE]]
       ELSE IF gen = "fail" THEN
           [session |-> saved, resp |-> [r EXCEPT !.outcome = "exception", !.raised = TRUE,
                                                  !.gen_calls = 1]]
       ELSE
           [session |-> saved, resp |-> [r EXCEPT !.outcome = "feedback", !.gen_calls = 1,
                                                  !.generated = GenText]]

\* a dispatch that looks for an answer before a request to go on or to clarify
handle_past_paper_request_answer_first(u, s, content, gen) ==
    LET intent == Intent[u]
    IN IF ~s.is_active \/ NewPaperRequest[u] THEN _start_new_paper(u, s, content)
       ELSE IF intent.wants_stop THEN
           [session |-> reset(s), resp |-> [NoResp EXCEPT !.intent = "STOP", !.outcome = "stopped"]]
       ELSE IF intent.has_answer THEN _process_answer(intent, s, gen)
       ELSE IF intent.wants_next THEN _show_next_batch(s)
       ELSE IF intent.wants_clarification THEN _provide_clarification(intent, s, gen)
       ELSE _show_next_batch(s)

handle_past_paper_request(u, s, content, gen) ==
    LET intent == Intent[u]
    IN IF ~s.is_active \/ NewPaperRequest[u] THEN _start_new_paper(u, s, content)
       ELSE IF intent.wants_stop THEN
           [session |-> reset(s), resp |-> [NoResp EXCEPT !.intent = "STOP", !.outcome = "stopped"]]
       ELSE IF intent.wants_next THEN _show_next_batch(s)
       ELSE IF intent.wants_clarification THEN _provide_clarification(intent, s, gen)
       ELSE IF intent.has_answer THEN _process_answer(intent, s, gen)
       ELSE _show_next_batch(s)

\* ----------------------------------------------------------------- state
SessionIds == {"api"}

VARIABLES
    sessions,   \* EnhancedPastPaperChain.sessions: session id -> session object
    heap,       \* the PastPaperSession objects, by allocation number
    resp,       \* what the last completed handle call returned and did
    hist,       \* per object, since its last start_paper or reset: the number of
                \* get_next_batch calls, the batches they returned concatenated,
                \* and the clarification generation calls per ordinal; kept by
                \* the whole calls of Spec and SpecBatch
    th,         \* per request thread of the interleaved specification: where it
                \* stands in handle_past_paper_request and its local variables
    calls       \* handle calls begun by the request threads

vars == <<sessions, heap, resp, hist, th, calls>>

Threads == 1..NumThreads

Idle == [pc |-> "idle", sid |-> NoneStr, message |-> << >>, obj |-> 0,
         questions |-> << >>, batch |-> << >>, has_more |-> FALSE,
         start_idx |-> 0, loaded |-> 0]

NoHist == [calls |-> 0, delivered |-> << >>, clar |-> [k \in {} |-> 0]]

Count(m, k) == IF k \in DOMAIN m THEN m[k] ELSE 0

Init ==
    /\ sessions = [k \in {} |-> 0]
    /\ heap = << >>
    /\ resp = NoResp
    /\ hist = << >>
    /\ th = [t \in Threads |-> Idle]
    /\ calls = 0

get_or_create_session(reg, hp, session_id) ==
    IF session_id \notin DOMAIN reg
    THEN [sessions |-> Put(reg, session_id, Len(hp) + 1),
          heap |-> Append(hp, PastPaperSession),
          obj |-> Len(hp) + 1]
    ELSE [sessions |-> reg, heap |-> hp, obj |-> reg[session_id]]

\* the history of an object after a call with response r
Record(h, r) ==
    IF r.outcome = "started"
    THEN [calls |-> 1, delivered |-> r.batch, clar |-> NoHist.clar]
    ELSE IF r.outcome \in {"stopped", "completed"} THEN NoHist
    ELSE IF r.outcome = "batch"
    THEN [h EXCEPT !.calls = @ + 1, !.delivered = @ \o r.batch]
    ELSE IF r.intent = "CLARIFY" /\ r.gen_calls > 0
    THEN [h EXCEPT !.clar = Put(@, r.q_num, Count(@, r.q_num) + r.gen_calls)]
    ELSE h

\* one whole call of handle_past_paper_request(message, session_id), with the
\* text the store holds and the behaviour of the model as its environment
Turn(session_id, message, content, gen) ==
    \E g \in {get_or_create_session(sessions, heap, session_id)} :
    \E res \in {handle_past_paper_request(message, g.heap[g.obj], content, gen)} :
    \E h \in {IF g.obj > Len(hist) THEN NoHist ELSE hist[g.obj]} :
    \E r \in {[res.resp EXCEPT !.sid = session_id, !.message = message,
                              !.was_active = g.heap[g.obj].is_active]} :
       /\ (r.intent = "CLARIFY" /\ r.gen_calls > 0)
              => Count(h.clar, r.q_num) < MaxClarifications
       /\ sessions' = g.sessions
       /\ heap' = [g.heap EXCEPT ![g.obj] = res.session]
       /\ resp' = r
       /\ hist' = [i \in 1..Len(g.heap) |-> IF i = g.obj THEN Record(h, r) ELSE hist[i]]
       /\ UNCHANGED <<th, calls>>

\* the environment is consulted only by the calls that reach it: the store by
\* _start_new_paper, the model by _provide_clarification and _process_answer
ContentsFor(session_id, message, texts) ==
    IF session_id \notin DOMAIN sessions \/ ~heap[sessions[session_id]].is_active
          \/ NewPaperRequest[message]
    THEN texts ELSE {MarkedContent(0)}

GenFor(message) ==
    LET intent == Intent[message]
    IN IF (intent.wants_clarification \/ intent.has_answer)
             /\ ~intent.wants_stop /\ ~intent.wants_next
       THEN GenOutcomes ELSE {"ok"}

start_past_paper(session_id, message, texts) ==
    \E content \in ContentsFor(session_id, message, texts), gen \in GenFor(message) :
        Turn(session_id, message, content, gen)

continue_past_paper(session_id, texts) ==
    \E content \in ContentsFor(session_id, NextMessage, texts) :
        Turn(session_id, NextMessage, content, "ok")

clarify_past_paper(session_id, questionNumber, texts) ==
    \E content \in ContentsFor(session_id, ClarifyMessage(questionNumber), texts),
       gen \in GenOutcomes :
        Turn(session_id, ClarifyMessage(questionNumber), content, gen)

answer_past_paper(session_id, questionNumber, answer, texts) ==
    \E content \in ContentsFor(session_id, AnswerMessage(questionNumber, answer), texts),
       gen \in GenOutcomes :
        Turn(session_id, AnswerMessage(questionNumber, answer), content, gen)

Next ==
    \/ \E sid \in SessionIds, m \in Messages : start_past_paper(sid, m, Contents)
    \/ \E sid \in SessionIds : continue_past_paper(sid, Contents)
    \/ \E sid \in SessionIds, n \in NumTokens : clarify_past_paper(sid, n, Contents)
    \/ \E sid \in SessionIds, n \in NumTokens, a \in AnswerWords :
           answer_past_paper(sid, n, a, Contents)

Spec == Init /\ [][Next]_vars

\* batching alone, over every paper size: start, continue and stop
BatchIds == {"api", "cli"}

NextBatch ==
    \/ \E sid \in BatchIds, m \in {StartMessage, StopMessage} :
           start_past_paper(sid, m, AllSizes)
    \/ \E sid \in BatchIds : continue_past_paper(sid, AllSizes)

SpecBatch == Init /\ [][NextBatch]_vars

\* segmentation alone, over every text: a paper is started on a session that
\* has none, and stopped
SegmentPaper(session_id) ==
    /\ session_id \in DOMAIN sessions => ~heap[sessions[session_id]].is_active
    /\ start_past_paper(session_id, StartMessage, SegContents)

EndPaper(session_id) ==
    /\ session_id \in DOMAIN sessions
    /\ heap[sessions[session_id]].is_active
    /\ start_past_paper(session_id, StopMessage, SegContents)

NextSeg ==
    \/ \E sid \in SessionIds : SegmentPaper(sid)
    \/ \E sid \in SessionIds : EndPaper(sid)

SpecSeg == Init /\ [][NextSeg]_vars

\* ------------------------------------------------- interleaved execution
\* api.py serves its endpoints (plain def) from a thread pool and takes no
\* lock: calls of handle_past_paper_request interleave at every access to the
\* shared sessions and session objects.  One step is one such access.
ConcIds == {"s1", "s2"}
ConcMessages == {StartMessage, NextMessage, StopMessage,
                 ClarifyMessage("1"), AnswerMessage("1", "X")}
ConcContents == {MarkedContent(n) : n \in {0, 2 * BatchSize + 1}}

Goto(t, pc) == th' = [th EXCEPT ![t].pc = pc]

\* the thread returns (or raises) and is idle again
Return(t, r) ==
    /\ th' = [th EXCEPT ![t] = Idle]
    /\ resp' = [r EXCEPT !.sid = th[t].sid]

\* a request thread enters handle_past_paper_request and get_or_create_session:
\* if session_id not in self.sessions
Call(t, session_id, message) ==
    /\ th[t].pc = "idle"
    /\ calls < MaxCalls
    /\ calls' = calls + 1
    /\ th' = [th EXCEPT ![t] =
                 [Idle EXCEPT !.pc = IF session_id \notin DOMAIN sessions THEN "create" ELSE "fetch",
                              !.sid = session_id, !.message = message]]
    /\ UNCHANGED <<sessions, heap, resp, hist>>

\* self.sessions[session_id] = PastPaperSession()
Create(t) ==
    /\ th[t].pc = "create"
    /\ heap' = Append(heap, PastPaperSession)
    /\ sessions' = Put(sessions, th[t].sid, Len(heap) + 1)
    /\ Goto(t, "fetch")
    /\ UNCHANGED <<resp, hist, calls>>

\* a registry that hands every id the one object allocated first
Fetch_shared(t) ==
    /\ th[t].pc = "fetch"
    /\ th' = [th EXCEPT ![t].pc = "dispatch", ![t].obj = 1]
    /\ UNCHANGED <<sessions, heap, resp, hist, calls>>

\* return self.sessions[session_id]
Fetch(t) ==
    /\ th[t].pc = "fetch"
    /\ th' = [th EXCEPT ![t].pc = "dispatch", ![t].obj = sessions[th[t].sid]]
    /\ UNCHANGED <<sessions, heap, resp, hist, calls>>

\* the tests of handle_past_paper_request on session.is_active and the intent
Dispatch(t) ==
    /\ th[t].pc = "dispatch"
    /\ LET u == th[t].message
           intent == Intent[u]
       IN Goto(t, IF ~heap[th[t].obj].is_active \/ NewPaperRequest[u] THEN "retrieve"
                  ELSE IF intent.wants_stop THEN "stop"
                  ELSE IF intent.wants_next THEN "show"
                  ELSE IF intent.wants_clarification THEN "clarify"
                  ELSE IF intent.has_answer THEN "answer"
                  ELSE "show")
    /\ UNCHANGED <<sessions, heap, resp, hist, calls>>

\* session.reset() and the farewell
Stop(t) ==
    /\ th[t].pc = "stop"
    /\ heap' = [heap EXCEPT ![th[t].obj] = reset(@)]
    /\ Return(t, [NoResp EXCEPT !.intent = "STOP", !.outcome = "stopped"])
    /\ UNCHANGED <<sessions, hist, calls>>

\* _show_next_batch: if not session.is_active
ShowCheck(t) ==
    /\ th[t].pc = "show"
    /\ IF ~heap[th[t].obj].is_active
       THEN Return(t, [NoResp EXCEPT !.intent = "NEXT_BATCH", !.outcome = "no_active"])
       ELSE Goto(t, "next_batch") /\ UNCHANGED resp
    /\ UNCHANGED <<sessions, heap, hist, calls>>

\* session.get_next_batch() up to its increment: start_idx, end_idx, batch
\* and has_more are computed from the session as it stands
NextBatchStep(t) ==
    /\ th[t].pc \in {"next_batch", "first_batch"}
    /\ \E nb \in {get_next_batch(heap[th[t].obj])} :
          th' = [th EXCEPT ![t].pc = IF th[t].pc = "next_batch" THEN "next_load" ELSE "first_load",
                           ![t].batch = nb.batch, ![t].has_more = nb.has_more,
                           ![t].start_idx = heap[th[t].obj].current_batch * BatchSize]
    /\ UNCHANGED <<sessions, heap, resp, hist, calls>>

\* self.current_batch += 1 is a load, an add and a store of the attribute:
\* the load
IncrementLoad(t) ==
    /\ th[t].pc \in {"next_load", "first_load"}
    /\ th' = [th EXCEPT ![t].pc = IF th[t].pc = "next_load" THEN "next_store" ELSE "first_store",
                        ![t].loaded = heap[th[t].obj].current_batch]
    /\ UNCHANGED <<sessions, heap, resp, hist, calls>>

\* the store of the incremented value, and the return of get_next_batch
IncrementStore(t) ==
    /\ th[t].pc \in {"next_store", "first_store"}
    /\ heap' = [heap EXCEPT ![th[t].obj].current_batch = th[t].loaded + 1]
    /\ th' = [th EXCEPT ![t].pc = IF th[t].pc = "next_store" THEN "shown" ELSE "started",
                        ![t].loaded = 0]
    /\ UNCHANGED <<sessions, resp, hist, calls>>

\* _show_next_batch after the batch: reset on an empty batch, else render
\* with start_num read from the session
Shown(t) ==
    /\ th[t].pc = "shown"
    /\ LET r == [NoResp EXCEPT !.intent = "NEXT_BATCH", !.batch_calls = 1]
           s == heap[th[t].obj]
       IN IF th[t].batch = << >>
          THEN /\ heap' = [heap EXCEPT ![th[t].obj] = reset(@)]
               /\ Return(t, [r EXCEPT !.outcome = "completed"])
          ELSE /\ heap' = heap
               /\ Return(t, [r EXCEPT !.outcome = "batch", !.batch = th[t].batch,
                                      !.has_more = th[t].has_more,
                                      !.start_num = (s.current_batch - 1) * 5 + 1,
                                      !.rendered = format_batch(th[t].batch,
                                                      (s.current_batch - 1) * 5 + 1),
                                      !.total = s.total_questions])
    /\ UNCHANGED <<sessions, hist, calls>>

\* _provide_clarification up to the look-up of the question
ClarifyCheck(t) ==
    /\ th[t].pc = "clarify"
    /\ LET s == heap[th[t].obj]
           q_num == Intent[th[t].message].question_num
           r == [NoResp EXCEPT !.intent = "CLARIFY", !.q_num = q_num]
       IN IF ~s.is_active
          THEN Return(t, [r EXCEPT !.outcome = "no_active"])
          ELSE IF q_num = NoneNum \/ q_num = 0 \/ q_num > Len(s.questions)
          THEN Return(t, [r EXCEPT !.outcome = "invalid_ordinal"])
          ELSE Goto(t, "clarify_gen") /\ UNCHANGED resp
    /\ UNCHANGED <<sessions, heap, hist, calls>>

\* chain.invoke of _provide_clarification and of _process_answer
Generate(t, gen) ==
    /\ th[t].pc \in {"clarify_gen", "answer_gen"}
    /\ LET intent == Intent[th[t].message]
           r == [NoResp EXCEPT !.intent = IF th[t].pc = "clarify_gen" THEN "CLARIFY" ELSE "ANSWER",
                               !.q_num = intent.question_num, !.gen_calls = 1,
                               !.answer = IF th[t].pc = "clarify_gen" THEN NoText
                                          ELSE intent.answer_text]
       IN IF gen = "fail"
          THEN Return(t, [r EXCEPT !.outcome = "exception", !.raised = TRUE])
          ELSE Return(t, [r EXCEPT !.outcome = IF th[t].pc = "clarify_gen" THEN "clarified"
                                               ELSE "feedback",
                                   !.generated = GenText])
    /\ UNCHANGED <<sessions, heap, hist, calls>>

\* _process_answer up to the test of q_num and answer
AnswerCheck(t) ==
    /\ th[t].pc = "answer"
    /\ LET s == heap[th[t].obj]
           intent == Intent[th[t].message]
           r == [NoResp EXCEPT !.intent = "ANSWER", !.q_num = intent.question_num,
                               !.answer = intent.answer_text]
       IN IF ~s.is_active
          THEN Return(t, [r EXCEPT !.outcome = "no_active"])
          ELSE IF intent.question_num = NoneNum \/ intent.question_num = 0
                    \/ intent.answer_text = NoText
          THEN Return(t, [r EXCEPT !.outcome = "need_both"])
          ELSE Goto(t, "save") /\ UNCHANGED resp
    /\ UNCHANGED <<sessions, heap, hist, calls>>

\* session.save_answer(q_num, answer)
Save(t) ==
    /\ th[t].pc = "save"
    /\ LET intent == Intent[th[t].message]
       IN heap' = [heap EXCEPT ![th[t].obj] =
                      save_answer(@, intent.question_num, intent.answer_text)]
    /\ Goto(t, "question")
    /\ UNCHANGED <<sessions, resp, hist, calls>>

\* question_text = session.questions[q_num - 1]
ReadQuestion(t) ==
    /\ th[t].pc = "question"
    /\ LET intent == Intent[th[t].message]
           r == [NoResp EXCEPT !.intent = "ANSWER", !.q_num = intent.question_num,
                               !.answer = intent.answer_text]
       IN IF intent.question_num > Len(heap[th[t].obj].questions)
          THEN Return(t, [r EXCEPT !.outcome = "exception", !.raised = TRUE])
          ELSE Goto(t, "answer_gen") /\ UNCHANGED resp
    /\ UNCHANGED <<sessions, heap, hist, calls>>

\* _start_new_paper up to the extraction of the questions
RetrieveStep(t, content) ==
    /\ th[t].pc = "retrieve"
    /\ \E res \in {_start_new_paper(th[t].message, PastPaperSession, content)} :
          IF res.resp.outcome = "started"
          THEN /\ th' = [th EXCEPT ![t].pc = "start", ![t].questions = res.session.questions]
               /\ UNCHANGED resp
          ELSE Return(t, res.resp)
    /\ UNCHANGED <<sessions, heap, hist, calls>>

\* session.start_paper(unit_code or "Unknown", year or "Unknown", questions)
StartPaper(t) ==
    /\ th[t].pc = "start"
    /\ LET d == PaperDetails[th[t].message]
       IN heap' = [heap EXCEPT ![th[t].obj] =
                      start_paper(@, IF d.unit_code # NoneStr THEN d.unit_code ELSE "Unknown",
                                     IF d.year # NoneStr THEN d.year ELSE "Unknown",
                                     th[t].questions)]
    /\ Goto(t, "first_batch")
    /\ UNCHANGED <<sessions, resp, hist, calls>>

\* _start_new_paper after the first batch: render it
Started(t) ==
    /\ th[t].pc = "started"
    /\ Return(t, [NoResp EXCEPT !.intent = "START_NEW", !.outcome = "started",
                                !.batch = th[t].batch, !.has_more = th[t].has_more,
                                !.start_num = 1, !.batch_calls = 1,
                                !.rendered = format_batch(th[t].batch, 1),
                                !.total = heap[th[t].obj].total_questions])
    /\ UNCHANGED <<sessions, heap, hist, calls>>

NextConc ==
    \/ \E t \in Threads, sid \in ConcIds, m \in ConcMessages : Call(t, sid, m)
    \/ \E t \in Threads : Create(t)
    \/ \E t \in Threads : Fetch(t)
    \/ \E t \in Threads : Dispatch(t)
    \/ \E t \in Threads : Stop(t)
    \/ \E t \in Threads : ShowCheck(t)
    \/ \E t \in Threads : NextBatchStep(t)
    \/ \E t \in Threads : IncrementLoad(t)
    \/ \E t \in Threads : IncrementStore(t)
    \/ \E t \in Threads : Shown(t)
    \/ \E t \in Threads : ClarifyCheck(t)
    \/ \E t \in Threads, gen \in GenOutcomes : Generate(t, gen)
    \/ \E t \in Threads : AnswerCheck(t)
    \/ \E t \in Threads : Save(t)
    \/ \E t \in Threads : ReadQuestion(t)
    \/ \E t \in Threads, content \in ConcContents : RetrieveStep(t, content)
    \/ \E t \in Threads : StartPaper(t)
    \/ \E t \in Threads : Started(t)

SpecConc == Init /\ [][NextConc]_vars

\* the steps open to a request thread that is inside a call
ThreadStep(t) ==
    \/ Create(t) \/ Fetch(t) \/ Dispatch(t) \/ Stop(t) \/ ShowCheck(t)
    \/ NextBatchStep(t) \/ IncrementLoad(t) \/ IncrementStore(t) \/ Shown(t)
    \/ ClarifyCheck(t) \/ AnswerCheck(t) \/ Save(t) \/ ReadQuestion(t)
    \/ StartPaper(t) \/ Started(t)
    \/ \E gen \in GenOutcomes : Generate(t, gen)
    \/ \E content \in ConcContents : RetrieveStep(t, content)

\* ------------------------------------------ interleaved calls, two ids
\* walkthroughs already under way when the interleaved calls begin: sessions
\* as whole calls leave them, new, started, and with every batch delivered
StartedPaper == _start_new_paper(StartMessage, PastPaperSession, MarkedContent(BatchSize + 1)).session
DeliveredPaper == _show_next_batch(StartedPaper).session
IsoSessions == {PastPaperSession, StartedPaper, DeliveredPaper}

InitIso ==
    /\ heap \in {<<a>> : a \in IsoSessions} \cup {<<a, b>> : a, b \in IsoSessions}
    /\ sessions = [k \in (IF Len(heap) = 1 THEN {"s1"} ELSE ConcIds) |->
                      IF k = "s1" THEN 1 ELSE 2]
    /\ resp = NoResp
    /\ hist = << >>
    /\ th = [t \in Threads |-> Idle]
    /\ calls = 0

\* one client per session id, each sending its requests one after the other
\* on a request thread of its own; the calls of the two clients interleave
IsoClients == <<"s1", "s2">>

CallIso(t, session_id, message) ==
    /\ calls < MaxIsoCalls
    /\ Call(t, session_id, message)

NextIso ==
    \/ \E t \in DOMAIN IsoClients, m \in ConcMessages : CallIso(t, IsoClients[t], m)
    \/ \E t \in Threads : Create(t)
    \/ \E t \in Threads : Fetch(t)
    \/ \E t \in Threads : Dispatch(t)
    \/ \E t \in Threads : Stop(t)
    \/ \E t \in Threads : ShowCheck(t)
    \/ \E t \in Threads : NextBatchStep(t)
    \/ \E t \in Threads : IncrementLoad(t)
    \/ \E t \in Threads : IncrementStore(t)
    \/ \E t \in Threads : Shown(t)
    \/ \E t \in Threads : ClarifyCheck(t)
    \/ \E t \in Threads, gen \in GenOutcomes : Generate(t, gen)
    \/ \E t \in Threads : AnswerCheck(t)
    \/ \E t \in Threads : Save(t)
    \/ \E t \in Threads : ReadQuestion(t)
    \/ \E t \in Threads, content \in ConcContents : RetrieveStep(t, content)
    \/ \E t \in Threads : StartPaper(t)
    \/ \E t \in Threads : Started(t)

SpecIso == InitIso /\ [][NextIso]_vars

\* ---------------------------------------------------------------- claims
Obj(sid) == sessions[sid]
Sess(sid) == heap[sessions[sid]]
Total(s) == Len(s.questions)

\* the state EMPTY of a session: inactive, cursor 0, no questions, no answers
IsEmpty(s) ==
    /\ ~s.is_active
    /\ s.current_batch = 0
    /\ s.questions = << >>
    /\ s.total_questions = 0
    /\ DOMAIN s.user_answers = {}
    /\ DOMAIN s.model_answers = {}

\* C1: for a session started with N >= 1 questions, the k-th get_next_batch
\* call since the start (k counted by the history, not by the cursor) returned
\* questions 5(k-1)+1 .. min(5k, N) in list order with has_more iff 5k < N,
\* and the batches returned so far concatenate to questions 1 .. min(5k, N).
C1_BatchesInOrder ==
    \A sid \in DOMAIN sessions :
        (resp.sid = sid /\ resp.outcome \in {"started", "batch"}) =>
            LET s == Sess(sid)
                N == Total(s)
                k == hist[Obj(sid)].calls
            IN /\ N >= 1
               /\ k >= 1
               /\ BatchSize * (k - 1) < N
               /\ resp.batch = SubSeq(s.questions, BatchSize * (k - 1) + 1, Min(BatchSize * k, N))
               /\ resp.has_more = (BatchSize * k < N)
               /\ hist[Obj(sid)].delivered = SubSeq(s.questions, 1, Min(BatchSize * k, N))

\* 12 questions: the third call returned the last 2 after 5 and 5, has_more false
C1_Witness ==
    \E sid \in DOMAIN sessions :
        /\ resp.sid = sid /\ resp.outcome = "batch"
        /\ Total(Sess(sid)) = 12
        /\ hist[Obj(sid)].calls = 3
        /\ Len(resp.batch) = 2
        /\ ~resp.has_more
        /\ hist[Obj(sid)].delivered = Sess(sid).questions

\* C2: a "next" handled on an active session whose questions have all been
\* delivered returns an empty batch with has_more false and leaves the session
\* EMPTY, the cursor at 0 and not one further.
C2_NextAfterLastBatchResets ==
    [][\A sid \in DOMAIN sessions :
          (/\ Sess(sid).is_active
           /\ hist[Obj(sid)].delivered = Sess(sid).questions
           /\ continue_past_paper(sid, AllSizes))
          => (/\ resp'.outcome = "completed"
              /\ resp'.batch = << >>
              /\ ~resp'.has_more
              /\ IsEmpty(heap'[Obj(sid)]))]_vars

C2_Witness ==
    \E sid \in DOMAIN sessions :
        /\ resp.sid = sid /\ resp.outcome = "completed"
        /\ resp.batch = << >> /\ ~resp.has_more
        /\ IsEmpty(Sess(sid))

\* C3: after a stop handled on an active session the session is EMPTY, and
\* "next" on it is processed as on a session object that was never used:
\* same response and same resulting session, whatever the store holds.
C3_StopThenNextIsFresh ==
    \A sid \in DOMAIN sessions :
        (resp.sid = sid /\ resp.outcome = "stopped") =>
            /\ IsEmpty(Sess(sid))
            /\ \A content \in Contents :
                   handle_past_paper_request(NextMessage, Sess(sid), content, "ok")
                     = handle_past_paper_request(NextMessage, PastPaperSession, content, "ok")

C3_Witness ==
    \E sid \in DOMAIN sessions :
        /\ resp.sid = sid /\ resp.outcome = "stopped" /\ resp.intent = "STOP"
        /\ IsEmpty(Sess(sid))

\* C4: "my answer for question <n> is <X>" handled on an active session with
\* 1 <= n <= total is dispatched as ANSWER with ordinal n, and the answer
\* stored under n is exactly X.
C4_AnswerStoredVerbatim ==
    [][\A sid \in DOMAIN sessions, n \in NumTokens, a \in AnswerWords :
          (/\ Sess(sid).is_active
           /\ IntOf(n) \in 1..Total(Sess(sid))
           /\ answer_past_paper(sid, n, a, Contents))
          => (/\ resp'.intent = "ANSWER"
              /\ resp'.q_num = IntOf(n)
              /\ IntOf(n) \in DOMAIN heap'[Obj(sid)].user_answers
              /\ heap'[Obj(sid)].user_answers[IntOf(n)] = <<a>>)]_vars

\* C5: a CLARIFY or ANSWER turn whose ordinal is missing or outside
\* [1, total] returns a guidance message (nothing is raised), calls the
\* generation capability not at all and leaves the answers as they were.
C5_InvalidOrdinalIsGuidance ==
    [][\A sid \in DOMAIN sessions :
          (/\ resp'.sid = sid
           /\ Sess(sid).is_active
           /\ resp'.intent \in {"CLARIFY", "ANSWER"}
           /\ resp'.q_num \notin 1..Total(Sess(sid)))
          => (/\ ~resp'.raised
              /\ resp'.outcome \in {"invalid_ordinal", "need_both"}
              /\ resp'.gen_calls = 0
              /\ heap'[Obj(sid)].user_answers = Sess(sid).user_answers)]_vars

\* C6: every key of the answers map and of the clarifications map of a
\* session is an ordinal in [1, number of questions].
C6_AnswerKeysAreOrdinals ==
    \A o \in 1..Len(heap) :
        /\ DOMAIN heap[o].user_answers \subseteq 1..Total(heap[o])
        /\ DOMAIN heap[o].model_answers \subseteq 1..Total(heap[o])

\* C7: within one session lifetime the generation capability is called at
\* most once per ordinal for clarification.
C7_ClarificationGeneratedOnce ==
    \A o \in 1..Len(hist) : \A n \in DOMAIN hist[o].clar : hist[o].clar[n] <= 1

\* C8: when the generation capability fails during a CLARIFY or ANSWER turn,
\* the call still returns a response, which carries the fixed placeholder, and
\* the active flag, the cursor and the questions are as before the turn.
C8_GenerationFailureIsLocal ==
    [][\A sid \in DOMAIN sessions, m \in Messages \cup {ClarifyMessage(n) : n \in NumTokens}
                 \cup {AnswerMessage(n, a) : n \in NumTokens, a \in AnswerWords} :
          (/\ Sess(sid).is_active
           /\ Turn(sid, m, MarkedContent(0), "fail")
           /\ resp'.gen_calls > 0)
          => (/\ ~resp'.raised
              /\ resp'.generated = Placeholder
              /\ heap'[Obj(sid)].is_active = Sess(sid).is_active
              /\ heap'[Obj(sid)].current_batch = Sess(sid).current_batch
              /\ heap'[Obj(sid)].questions = Sess(sid).questions)]_vars

\* C9: 0 <= cursor * batchSize <= number of questions + batchSize in every
\* state between handle calls.
C9_CursorBound ==
    \A o \in 1..Len(heap) :
        /\ 0 <= heap[o].current_batch * BatchSize
        /\ heap[o].current_batch * BatchSize <= Total(heap[o]) + BatchSize

\* the cursor stands past the end of the list after the last, partial batch
C9_Witness ==
    \E o \in 1..Len(heap) :
        /\ heap[o].is_active
        /\ heap[o].current_batch * BatchSize > Total(heap[o])
        /\ hist[o].delivered = heap[o].questions

\* C10: in every state, also between the steps of interleaved calls on one
\* session id, an inactive session has no answers and no clarifications,
\* cursor 0 and no questions.
C10_InactiveIsEmpty ==
    \A o \in 1..Len(heap) : ~heap[o].is_active => IsEmpty(heap[o])

\* a request thread stands between its first read and its last write of the
\* session object it was handed
InSession(t) ==
    th[t].pc \in {"stop", "show", "next_batch", "next_load", "next_store", "shown",
                  "clarify", "answer", "save", "question",
                  "start", "first_batch", "first_load", "first_store", "started"}

\* C11: at no point are two calls of handle_past_paper_request for the same
\* session id both between their first read and their last write of that
\* session's state.
C11_MutualExclusion ==
    \A t1, t2 \in Threads :
        (t1 # t2 /\ th[t1].sid = th[t2].sid /\ InSession(t1)) => ~InSession(t2)

\* C12: two "next" calls of one session that overlap, begun with more than one
\* batch still to deliver, have got different batches from get_next_batch and
\* have together moved the cursor on by exactly two.
C12_OverlappingNextDistinct ==
    \A t1, t2 \in Threads :
        (/\ t1 # t2
         /\ th[t1].pc = "shown" /\ th[t2].pc = "shown"
         /\ th[t1].obj = th[t2].obj
         /\ heap[th[t1].obj].is_active
         /\ Min(th[t1].start_idx, th[t2].start_idx) + BatchSize
                < heap[th[t1].obj].total_questions)
        => (/\ th[t1].batch # th[t2].batch
            /\ heap[th[t1].obj].current_batch * BatchSize
                   = Min(th[t1].start_idx, th[t2].start_idx) + 2 * BatchSize)

\* C13: every step of a call for session id A leaves the registration and the
\* session object of every other id B as they were, and a thread inside a
\* call always has a step it can take, whatever the other threads are doing.
C13_IsolationById ==
    /\ [](\A t \in Threads : th[t].pc # "idle" => ENABLED ThreadStep(t))
    /\ [][\A t \in Threads : th'[t] # th[t] =>
             LET A == IF th[t].pc = "idle" THEN th'[t].sid ELSE th[t].sid
             IN \A B \in DOMAIN sessions \ {A} :
                   /\ sessions'[B] = sessions[B]
                   /\ heap'[sessions[B]] = heap[sessions[B]]]_vars

\* calls for two ids are in flight at once, each inside its own session, and
\* the two sessions have come to differ
C13_Witness ==
    \E t1, t2 \in Threads :
        /\ th[t1].sid = "s1" /\ th[t2].sid = "s2"
        /\ InSession(t1) /\ InSession(t2)
        /\ th[t1].obj # th[t2].obj
        /\ heap[th[t1].obj].is_active /\ heap[th[t2].obj].is_active
        /\ heap[th[t1].obj] # heap[th[t2].obj]

\* a paper has just been started from a text given line by line
Segmented ==
    /\ resp.outcome = "started"
    /\ resp.docs # << >>
    /\ "lines" \in DOMAIN resp.docs[1]

\* the marker lines of the text by the conventions of the specification:
\* explicit "Question <n>:" / "Q<n>:", bare "<n>." / "<n>)" / "(<n>)"
ExplicitLines(lines) ==
    {i \in 1..Len(lines) : lines[i].prefix \in Prefixes /\ lines[i].form = "n:"}
BareLines(lines) ==
    {i \in 1..Len(lines) : lines[i].prefix = "" /\ lines[i].form \in {"n.", "n)", "(n)"}}

\* the candidates whose stripped body is long enough to be kept
KeptBlocks(content) ==
    {k \in 1..Len(content.blocks) : content.blocks[k].len > MinBodyLen}

\* C14: a text with N marked questions of one convention, whatever their
\* marker numbers, is segmented into N questions in the order of the parsed
\* numbers, the i-th of them labelled "Question i:".
C14_OrdinalsAreRanks ==
    Segmented =>
        LET content == resp.docs[1]
            qs == Sess(resp.sid).questions
            N == Cardinality(KeptBlocks(content))
        IN (/\ N >= 1
            /\ \/ ExplicitLines(content.lines) = {}
               \/ BareLines(content.lines) = {})
           => (/\ Len(qs) = N
               /\ \A i \in 1..Len(qs) : qs[i].label = i
               /\ \A i, j \in 1..Len(qs) :
                     i < j => content.blocks[qs[i].pos].num <= content.blocks[qs[j].pos].num)

\* C15: in a text with numbered questions, a line that begins with a lettered
\* sub-part marker starts no question and lies in the body of the question
\* whose marker is the nearest before it; a text numbered in the bare style
\* gives as many questions as it has numbered items with a body to keep, 18
\* for the enumerated sample.
C15_SubpartsStayInside ==
    Segmented =>
        LET content == resp.docs[1]
            lines == content.lines
            qs == Sess(resp.sid).questions
            numbered == {i \in 1..Len(lines) : lines[i].form \in NumberForms}
        IN KeptBlocks(content) # {} =>
             /\ \A idx \in 1..Len(lines) : lines[idx].form = "a." =>
                   /\ \A i \in 1..Len(qs) : content.blocks[qs[i].pos].first # idx
                   /\ \A m \in numbered :
                         (m < idx /\ \A n \in numbered : ~(m < n /\ n < idx))
                         => \E k \in 1..Len(content.blocks) :
                               /\ content.blocks[k].first = m
                               /\ content.blocks[k].last >= idx
             /\ ExplicitLines(lines) = {} =>
                   Len(qs) = Cardinality({k \in KeptBlocks(content) :
                                             content.blocks[k].first \in BareLines(lines)})
             /\ lines = SAMPLE_ENUMERATED_CONTENT => Len(qs) = 18

\* the enumerated sample is segmented into 18 questions, the fifth holding
\* its five lettered sub-parts
C15_Witness ==
    /\ Segmented
    /\ resp.docs[1].lines = SAMPLE_ENUMERATED_CONTENT
    /\ Len(Sess(resp.sid).questions) = 18
    /\ LET b == resp.docs[1].blocks[Sess(resp.sid).questions[5].pos]
       IN /\ b.num = 5
          /\ \A idx \in (b.first + 1)..(b.first + 5) :
                resp.docs[1].lines[idx].form = "a." /\ idx <= b.last

\* C16: in a text that holds an explicit marker, only the explicit markers
\* delimit questions: every question starts at an explicit marker, and there
\* are as many questions as explicit markers.
C16_SingleConvention ==
    Segmented =>
        LET content == resp.docs[1]
            lines == content.lines
            qs == Sess(resp.sid).questions
        IN ExplicitLines(lines) # {} =>
             /\ \A i \in 1..Len(qs) : content.blocks[qs[i].pos].first \in ExplicitLines(lines)
             /\ Len(qs) = Cardinality(ExplicitLines(lines))

\* the transition the first matching test selects, the tests taken in the
\* order START_NEW, STOP, NEXT_BATCH, CLARIFY, ANSWER
FirstMatch(u) ==
    IF _is_new_paper_request(u) THEN "START_NEW"
    ELSE IF Search(u, StopWords) THEN "STOP"
    ELSE IF Search(u, NextWords) THEN "NEXT_BATCH"
    ELSE IF Search(u, ClarifyWords) THEN "CLARIFY"
    ELSE IF Search(u, AnswerCues) THEN "ANSWER"
    ELSE "NEXT_BATCH"

FirstMatchOf == [u \in Utterances |-> FirstMatch(u)]

\* C17: on an active session every utterance, also one that matches several
\* of the intent patterns, is dispatched to the one transition that matches
\* first in the order START_NEW, STOP, NEXT_BATCH, CLARIFY, ANSWER, and an
\* utterance that matches none to NEXT_BATCH.
C17_FirstMatchDispatch ==
    [][\A sid \in DOMAIN sessions :
          (resp'.sid = sid /\ Sess(sid).is_active /\ resp'.message \in Utterances)
          => resp'.intent = FirstMatchOf[resp'.message]]_vars

\* an utterance with a clarification word and an answer cue was clarified,
\* and no answer was stored
C17_Witness ==
    /\ resp.message = <<"explain", "my", "answer", "is", "X", "question", "1">>
    /\ resp.intent = "CLARIFY" /\ resp.outcome = "clarified"
    /\ resp.q_num = 1
    /\ \E sid \in DOMAIN sessions :
          resp.sid = sid /\ DOMAIN Sess(sid).user_answers = {}

\* C18: a START_NEW turn makes one retrieval or two; the second is made
\* exactly when the first found nothing and the message holds a unit code,
\* and its filter is the first without the unit code; every filter asks for
\* source_type PastPaper and for the year of the message if it holds one.
C18_RetrievalsOfStart ==
    resp.intent = "START_NEW" =>
        LET fs == resp.retrievals
            unit == First(resp.message, UnitTokens)
            year == First(resp.message, YearTokens)
            found(f) == \E meta \in Store : Matches(meta, f)
        IN /\ Len(fs) \in {1, 2}
           /\ fs[1] = [source_type |-> "PastPaper", unit_code |-> unit, year |-> year]
           /\ Len(fs) = 2 <=> (~found(fs[1]) /\ unit # NoneStr)
           /\ Len(fs) = 2 =>
                 fs[2] = [source_type |-> "PastPaper", unit_code |-> NoneStr, year |-> year]

\* the paper of another unit was found by the retry without the unit code
C18_Witness ==
    /\ resp.intent = "START_NEW" /\ resp.outcome = "started"
    /\ resp.message = <<"PHY300", "2024">>
    /\ Len(resp.retrievals) = 2
    /\ resp.retrievals[1].unit_code = "PHY300"
    /\ resp.retrievals[2].unit_code = NoneStr
    /\ resp.retrievals[2].year = "2024"

C21_FailedStartLeavesSession ==
    [][\A sid \in DOMAIN sessions' :
          (resp'.sid = sid /\ resp'.intent = "START_NEW") =>
             LET found == resp'.docs # << >>
                 before == IF sid \in DOMAIN sessions THEN Sess(sid) ELSE PastPaperSession
             IN /\ resp'.outcome = "not_found" <=> ~found
                /\ resp'.outcome = "segmentation_empty"
                      <=> (found /\ Questions[resp'.docs[1]] = << >>)
                /\ resp'.outcome \in {"not_found", "segmentation_empty"} =>
                      /\ ~resp'.raised
                      /\ heap'[sessions'[sid]] = before
                      /\ sid \in DOMAIN sessions => sessions'[sid] = sessions[sid]]_vars

\* a paper was asked for and not found, also not by the retry, while a
\* walkthrough with a stored answer was under way: it is still under way
C21_Witness ==
    \E sid \in DOMAIN sessions :
        /\ resp.sid = sid /\ resp.outcome = "not_found" /\ resp.was_active
        /\ Len(resp.retrievals) = 2
        /\ Sess(sid).is_active
        /\ Sess(sid).current_batch >= 1
        /\ DOMAIN Sess(sid).user_answers # {}

\* C22: a START_NEW turn that loads a text for a session that is active
\* re-initializes the same session object: its questions are those of the new
\* text, its answer maps are empty, and the response delivers the first
\* min(5, N) of the new questions, the cursor standing after that batch.
C22_RestartInPlace ==
    [][\A sid \in DOMAIN sessions :
          (/\ Sess(sid).is_active
           /\ resp'.sid = sid /\ resp'.intent = "START_NEW" /\ resp'.outcome = "started")
          => LET s == heap'[sessions'[sid]]
                 qs == Questions[resp'.docs[1]]
             IN /\ sessions'[sid] = sessions[sid]
                /\ s.is_active
                /\ s.questions = qs
                /\ s.total_questions = Len(qs)
                /\ DOMAIN s.user_answers = {}
                /\ DOMAIN s.model_answers = {}
                /\ s.current_batch = 1
                /\ resp'.batch = SubSeq(qs, 1, Min(BatchSize, Len(qs)))
                /\ resp'.start_num = 1]_vars

\* a 2-question paper was loaded over a walkthrough that was under way
C22_Witness ==
    \E sid \in DOMAIN sessions :
        /\ resp.sid = sid /\ resp.outcome = "started" /\ resp.was_active
        /\ resp.docs = <<MarkedContent(2)>>
        /\ Total(Sess(sid)) = 2
        /\ Len(resp.batch) = 2
        /\ DOMAIN Sess(sid).user_answers = {}

\* C23: in the batch a START_NEW or NEXT_BATCH turn renders, block i shows
\* question i of the batch under a heading number that is the position of
\* that question in the session's list, the position at which a CLARIFY or
\* ANSWER turn with that number looks the question up.
C23_HeadingIsPosition ==
    \A sid \in DOMAIN sessions :
        (resp.sid = sid /\ resp.outcome \in {"started", "batch"}) =>
            /\ Len(resp.rendered) = Len(resp.batch)
            /\ Len(resp.batch) >= 1
            /\ \A i \in 1..Len(resp.rendered) :
                  LET b == resp.rendered[i]
                  IN /\ b.question = resp.batch[i]
                     /\ b.heading \in 1..Total(Sess(sid))
                     /\ Sess(sid).questions[b.heading] = b.question

\* the third batch of a 12-question paper is headed 11 and 12
C23_Witness ==
    \E sid \in DOMAIN sessions :
        /\ resp.sid = sid /\ resp.outcome = "batch"
        /\ Total(Sess(sid)) = 12
        /\ Len(resp.rendered) = 2
        /\ resp.rendered[1].heading = 11
        /\ resp.rendered[2].heading = 12
        /\ resp.rendered[2].question = Sess(sid).questions[12]

\* the calls in progress on session id sid work on the object registered for it
InUseRegistered ==
    \A t \in Threads : th[t].obj # 0 => th[t].obj = sessions[th[t].sid]

\* every session object that has been updated is registered under some id
UpdatedVisible ==
    \A o \in 1..Len(heap) :
        heap[o] # PastPaperSession => \E sid \in DOMAIN sessions : sessions[sid] = o

\* C24: for each session id at most one session object is ever in use, also
\* when the first calls for a new id overlap: every call in progress holds the
\* object registered for its id, and no unregistered object, which later calls
\* cannot reach, carries an update.
C24_OneObjectPerId == InUseRegistered /\ UpdatedVisible

====
